---- MODULE Spec2Model ----
(***************************************************************************)
(* Model of src/bot.py: a Telegram bot that gates a code -> video registry *)
(* behind a channel-membership check and lets administrators upload and    *)
(* delete registry entries.                                                *)
(*                                                                         *)
(* Strings are sequences of one-character strings, so that upper(),        *)
(* strip() and " ".join() are computed and not assumed.                    *)
(***************************************************************************)
EXTENDS Integers, Sequences, FiniteSets, TLC

\* ------------------------------------------------------------------ bounds
NumChannels == 2      \* length of MANDATORY_CHANNELS
MaxCodeLen == 2       \* longest code typed by a user or an administrator
MaxTitleWords == 2    \* most title words after the code in /upload

\* ------------------------------------------------------------------ config
None == "None"

MANDATORY_CHANNELS == [i \in 1..NumChannels |-> i]

ADMIN_IDS == {1}

Users == {1, 2}

\* update.effective_user is None
NoUser == 0

\* Names bound at module level in bot.py (imports, configuration, functions).
ModuleGlobals ==
    {"logging", "os", "asynccontextmanager", "List", "aiosqlite", "ChatMember",
     "InlineKeyboardButton", "InlineKeyboardMarkup", "Update", "ChatMemberStatus",
     "ParseMode", "BadRequest", "Application", "ApplicationBuilder",
     "CallbackContext", "CommandHandler", "ContextTypes", "MessageHandler",
     "filters", "TOKEN", "MANDATORY_CHANNELS", "ADMIN_IDS", "DB_PATH", "logger",
     "get_db", "add_video", "delete_video", "fetch_video", "is_admin",
     "check_membership", "start", "handle_code", "upload", "delete", "main"}

\* ----------------------------------------------------------------- strings
CodeChars == {"a", "A"}

Codes == UNION {[1..n -> CodeChars] : n \in 1..MaxCodeLen}

Word == <<"x">>

WordLists == UNION {[1..n -> {Word}] : n \in 0..MaxTitleWords}

\* context.args: the whitespace-separated words after the command
ArgLists == {<<>>} \cup {<<c>> \o ws : c \in Codes, ws \in WordLists}

Pads == {<<>>, <<" ">>}

\* update.message.text of a non-command text message
Texts == {l \o c \o r : l \in Pads, c \in Codes, r \in Pads}

FileIds == {"f1", "f2"}

\* str.upper() on one character
UpperChar(ch) ==
    CASE ch = "a" -> "A"
      [] ch = "x" -> "X"
      [] OTHER -> ch

\* str.upper()
upper(s) == [i \in DOMAIN s |-> UpperChar(s[i])]

IsSpace(ch) == ch = " "

RECURSIVE lstrip(_)
lstrip(s) == IF s # <<>> /\ IsSpace(Head(s)) THEN lstrip(Tail(s)) ELSE s

RECURSIVE rstrip(_)
rstrip(s) ==
    IF s # <<>> /\ IsSpace(s[Len(s)]) THEN rstrip(SubSeq(s, 1, Len(s) - 1)) ELSE s

\* variant: only leading whitespace is removed
strip_left(s) == lstrip(s)

\* str.strip()
strip(s) == rstrip(lstrip(s))

\* variant: the words are concatenated without the separator
RECURSIVE join_nosep(_, _)
join_nosep(sep, words) ==
    IF words = <<>> THEN <<>> ELSE words[1] \o join_nosep(sep, Tail(words))

\* sep.join(words)
RECURSIVE join(_, _)
join(sep, words) ==
    IF words = <<>> THEN <<>>
    ELSE IF Len(words) = 1 THEN words[1]
    ELSE words[1] \o sep \o join(sep, Tail(words))

\* ---------------------------------------------------------------- platform
\* ChatMemberStatus values returned by get_chat_member
Statuses == {"creator", "administrator", "member", "restricted", "left", "kicked"}

\* telegram.error exceptions raised by get_chat_member instead of a status
QueryErrors == {"BadRequest", "Forbidden"}

Outcomes == Statuses \cup QueryErrors

Channels == {MANDATORY_CHANNELS[i] : i \in DOMAIN MANDATORY_CHANNELS}

\* what get_chat_member(channel, user) answers for each channel, for one user
Reports == [Channels -> Outcomes]

DefaultReports == [ch \in Channels |-> "left"]

\* reply_to_message of the incoming message, and the file_id of its video
NoReply == [is_reply |-> FALSE, video |-> None]

ReplyTos ==
    {NoReply, [is_reply |-> TRUE, video |-> None]}
        \cup {[is_reply |-> TRUE, video |-> f] : f \in FileIds}

\* an incoming update as the handlers read it
Update(handler, user, text, args, reply_to, reports) ==
    [handler |-> handler, user |-> user, text |-> text, args |-> args,
     reply_to |-> reply_to, reports |-> reports]

NoUpdate == Update(None, NoUser, <<>>, <<>>, NoReply, DefaultReports)

\* an outbound message: reply_text (kind "text") or reply_video (kind "video")
Msg(kind, tag, video, title, code, buttons) ==
    [kind |-> kind, tag |-> tag, video |-> video, title |-> title, code |-> code,
     buttons |-> buttons]

Text(tag) == Msg("text", tag, None, <<>>, <<>>, <<>>)

\* ---------------------------------------------------------------- database
VARIABLES
    videos,      \* rows of table videos(code PRIMARY KEY, title, file_id)
    user_data,   \* context.user_data of each user: a set of <<key, value>>
    pc,          \* "idle": waiting for an update; "handled": a handler has run
    ev,          \* the update the handler ran on
    out,         \* messages the handler sent, in order
    queries,     \* get_chat_member calls the handler made: <<channel, user>>
    sql,         \* statements the handler executed on the database
    cm_ret,      \* what check_membership returned to start
    success,     \* what delete_video returned to delete
    row,         \* what fetch_video returned to handle_code
    raised,      \* the exception that left the handler, or None
    tasks,       \* concurrent_updates: the handler coroutines in flight
    commits      \* the tasks whose registry write was committed, in order

vars ==
    <<videos, user_data, pc, ev, out, queries, sql, cm_ret, success, row, raised,
      tasks, commits>>

\* what the handlers of one update leave behind
seq_vars == <<pc, ev, out, queries, sql, cm_ret, success, row, raised>>

\* what the concurrent handler coroutines leave behind
conc_vars == <<tasks, commits>>

Row(code, title, file_id) == [code |-> code, title |-> title, file_id |-> file_id]

\* variant: a plain INSERT, the conflicting row is kept
add_video_insert(db, code, title, file_id) ==
    db \cup {Row(upper(code), title, file_id)}

\* variant: an existing row gets the new file_id and keeps its title
add_video_file_only(db, code, title, file_id) ==
    LET old == {r \in db : r.code = upper(code)}
    IN  {r \in db : r.code # upper(code)}
            \cup {Row(upper(code),
                      IF old = {} THEN title ELSE (CHOOSE r \in old : TRUE).title,
                      file_id)}

\* REPLACE INTO videos VALUES (code.upper(), title, file_id): the row that
\* conflicts on the primary key is deleted, then the new row is inserted
add_video(db, code, title, file_id) ==
    {r \in db : r.code # upper(code)} \cup {Row(upper(code), title, file_id)}

\* variant: returns rowcount >= 0
delete_video_any(db, code) ==
    LET hit == {r \in db : r.code = upper(code)}
    IN  [db |-> db \ hit, ret |-> Cardinality(hit) >= 0]

\* variant: the deletion is not committed, the row stays
delete_video_keep(db, code) ==
    LET hit == {r \in db : r.code = upper(code)}
    IN  [db |-> db, ret |-> Cardinality(hit) > 0]

\* DELETE FROM videos WHERE code = code.upper(); returns rowcount > 0
delete_video(db, code) ==
    LET hit == {r \in db : r.code = upper(code)}
    IN  [db |-> db \ hit, ret |-> Cardinality(hit) > 0]

NoRow == <<>>

\* variant: the lookup key is not uppercased
fetch_video_exact(db, code) ==
    LET hit == {r \in db : r.code = code}
    IN  IF hit = {} THEN NoRow
        ELSE LET r == CHOOSE r \in hit : TRUE IN <<r.file_id, r.title>>

\* SELECT file_id, title FROM videos WHERE code = code.upper(); fetchone()
fetch_video(db, code) ==
    LET hit == {r \in db : r.code = upper(code)}
    IN  IF hit = {} THEN NoRow
        ELSE LET r == CHOOSE r \in hit : TRUE IN <<r.file_id, r.title>>

Stmt(op, code, committed) == [op |-> op, code |-> code, committed |-> committed]

\* ----------------------------------------------------------------- helpers
\* variant: the administrator list is not consulted
is_admin_any(user_id) == TRUE

is_admin(user_id) == user_id \in ADMIN_IDS

\* variant: restricted members pass too
PASSING_restricted == {"member", "creator", "administrator", "restricted"}

PASSING == {"member", "creator", "administrator"}

\* variant: the loop goes on after a failing channel and fails at the end
RECURSIVE check_from_all(_, _, _)
check_from_all(i, user_id, reports) ==
    IF i > Len(MANDATORY_CHANNELS)
    THEN [ret |-> "True", raised |-> None, queries |-> <<>>]
    ELSE LET channel_id == MANDATORY_CHANNELS[i]
             answer == reports[channel_id]
             q == <<channel_id, user_id>>
             rest == check_from_all(i + 1, user_id, reports)
         IN  IF answer \in {"Forbidden"}
             THEN [ret |-> None, raised |-> answer, queries |-> <<q>>]
             ELSE IF answer \notin {"member", "creator", "administrator"}
             THEN [rest EXCEPT !.queries = <<q>> \o @,
                               !.ret = IF rest.raised = None THEN "False" ELSE @]
             ELSE [rest EXCEPT !.queries = <<q>> \o @]

\* the loop of check_membership from the i-th channel on
RECURSIVE check_from(_, _, _)
check_from(i, user_id, reports) ==
    IF i > Len(MANDATORY_CHANNELS)
    THEN [ret |-> "True", raised |-> None, queries |-> <<>>]
    ELSE LET channel_id == MANDATORY_CHANNELS[i]
             answer == reports[channel_id]
             q == <<channel_id, user_id>>
         IN  IF answer = "BadRequest"
             THEN [ret |-> "False", raised |-> None, queries |-> <<q>>]
             ELSE IF answer \in QueryErrors
             THEN [ret |-> None, raised |-> answer, queries |-> <<q>>]
             ELSE IF answer \notin PASSING
             THEN [ret |-> "False", raised |-> None, queries |-> <<q>>]
             ELSE LET rest == check_from(i + 1, user_id, reports)
                  IN  [rest EXCEPT !.queries = <<q>> \o @]

\* variant: only the last channel of the list is checked
check_membership_last(user_id, reports) ==
    check_from(Len(MANDATORY_CHANNELS), user_id, reports)

\* variant: a session already marked verified is not checked again
check_membership_cached(user_id, reports) ==
    IF <<"verified", TRUE>> \in user_data[user_id]
    THEN [ret |-> "True", raised |-> None, queries |-> <<>>]
    ELSE check_from(1, user_id, reports)

check_membership(user_id, reports) == check_from(1, user_id, reports)

\* variant: the flag is never found
verified_never(d) == FALSE

\* variant: the flag is not consulted
verified_any(d) == TRUE

\* context.user_data.get("verified"), as a truth value
verified(d) == \E p \in d : p[1] = "verified" /\ p[2] = TRUE

\* variant: the flag is flipped instead of set
set_verified_toggle(d) ==
    IF \E p \in d : p[1] = "verified" /\ p[2] = TRUE
    THEN {p \in d : p[1] # "verified"}
    ELSE {p \in d : p[1] # "verified"} \cup {<<"verified", TRUE>>}

\* context.user_data["verified"] = True
set_verified(d) == {p \in d : p[1] # "verified"} \cup {<<"verified", TRUE>>}

\* the list comprehension building the join buttons in start: one button per
\* channel, each evaluating the global name KINOSPEEDS
join_buttons ==
    IF MANDATORY_CHANNELS = <<>> THEN [raised |-> None, buttons |-> <<>>]
    ELSE IF "KINOSPEEDS" \in ModuleGlobals
    THEN [raised |-> None,
          buttons |-> [i \in DOMAIN MANDATORY_CHANNELS |-> "KINOSPEEDS"]]
    ELSE [raised |-> "NameError", buttons |-> <<>>]

\* upload: the replied-to message is missing or carries no video
no_video(reply_to) == ~reply_to.is_reply \/ reply_to.video = None

\* variant: a single argument is accepted
upload_usage_one(args) == Len(args) < 1

\* upload: too few arguments
upload_usage(args) == Len(args) < 2

\* variant: extra arguments are accepted
delete_usage_lt(args) == Len(args) < 1

\* delete: wrong argument count
delete_usage(args) == Len(args) # 1

\* ------------------------------------------------------------- coroutines
\* With concurrent_updates(True) every update is handled in a coroutine of its
\* own; coroutines interleave at their awaits.
Tasks == {1, 2, 3}

\* a coroutine: the update it handles, the awaits it has still to pass, and
\* what it has done so far
Task(handler, user, text, args, reply_to, started, steps) ==
    [handler |-> handler, user |-> user, text |-> text, args |-> args,
     reply_to |-> reply_to, started |-> started, steps |-> steps,
     txn |-> FALSE,        \* a statement is executed and not yet committed
     rowcount |-> None,    \* cur.rowcount > 0 of its DELETE
     selected |-> FALSE,   \* its SELECT has run
     fetched |-> NoRow,    \* what fetchone() returned
     seen |-> 0,           \* how many writes were committed when it selected
     known |-> {},         \* the tasks that had sent a reply when it began
     sent |-> <<>>,        \* the messages it has sent
     raised |-> None]      \* the exception that ended it

NewTask == Task(None, NoUser, <<>>, <<>>, NoReply, FALSE, <<>>)

\* variant: the confirmation is sent before the commit
UploadSteps_reply_first == <<"execute", "reply", "commit">>

\* upload after validation: add_video (execute, commit), then reply_text
UploadSteps == <<"execute", "commit", "reply">>

\* delete after validation: delete_video (execute, commit), then reply_text
DeleteSteps == <<"execute", "commit", "reply">>

\* handle_code of a verified user: fetch_video, then reply_video or reply_text
LookupSteps == <<"select", "reply">>

\* the updates handled concurrently
ConcCodes == {<<"a">>, <<"A">>, <<"a", "a">>}

ConcUploads ==
    {[reply_to |-> [is_reply |-> TRUE, video |-> "f1"], args |-> <<c, Word>>] :
        c \in ConcCodes}
    \cup
    {[reply_to |-> [is_reply |-> TRUE, video |-> "f2"], args |-> <<c, Word, Word>>] :
        c \in ConcCodes}

\* ---------------------------------------------------------------- handlers
Init ==
    /\ videos = {}
    /\ user_data = [u \in Users |-> {}]
    /\ pc = "idle"
    /\ ev = NoUpdate
    /\ out = <<>>
    /\ queries = <<>>
    /\ sql = <<>>
    /\ cm_ret = None
    /\ success = None
    /\ row = NoRow
    /\ raised = None
    /\ tasks = [t \in Tasks |-> NewTask]
    /\ commits = <<>>

\* what one handler run leaves behind, besides videos and user_data
Ran(update, sent, asked, stmts, cm, del, fetched, exc) ==
    /\ pc' = "handled"
    /\ ev' = update
    /\ out' = sent
    /\ queries' = asked
    /\ sql' = stmts
    /\ cm_ret' = cm
    /\ success' = del
    /\ row' = fetched
    /\ raised' = exc
    /\ UNCHANGED conc_vars

\* /start
start(user, reports) ==
    /\ pc = "idle"
    /\ user = NoUser => reports = DefaultReports
    /\ UNCHANGED videos
    /\ LET update == Update("start", user, <<>>, <<>>, NoReply, reports)
       IN  IF user = NoUser
           THEN /\ Ran(update, <<>>, <<>>, <<>>, None, None, NoRow, None)
                /\ UNCHANGED user_data
           ELSE LET cm == check_membership(user, reports)
                IN  IF cm.raised # None
                    THEN /\ Ran(update, <<>>, cm.queries, <<>>, cm.ret, None, NoRow,
                                cm.raised)
                         /\ UNCHANGED user_data
                    ELSE IF cm.ret = "True"
                    THEN /\ Ran(update, <<Text("verified")>>, cm.queries, <<>>, cm.ret,
                                None, NoRow, None)
                         /\ user_data' = [user_data EXCEPT ![user] = set_verified(@)]
                    ELSE /\ UNCHANGED user_data
                         /\ IF join_buttons.raised # None
                            THEN Ran(update, <<>>, cm.queries, <<>>, cm.ret, None, NoRow,
                                     join_buttons.raised)
                            ELSE Ran(update,
                                     <<Msg("text", "join", None, <<>>, <<>>,
                                           join_buttons.buttons)>>,
                                     cm.queries, <<>>, cm.ret, None, NoRow, None)

\* a text message that is not a command
handle_code(user, text, db_ok) ==
    /\ pc = "idle"
    /\ UNCHANGED <<videos, user_data>>
    /\ LET update == Update("handle_code", user, text, <<>>, NoReply, DefaultReports)
           code == strip(text)
           fetched == fetch_video(videos, code)
       IN  IF ~verified(user_data[user])
           THEN Ran(update, <<>>, <<>>, <<>>, None, None, NoRow, None)
           ELSE IF ~db_ok
           THEN Ran(update, <<>>, <<>>, <<Stmt("SELECT", upper(code), FALSE)>>, None,
                    None, NoRow, "StorageError")
           ELSE IF fetched # NoRow
           THEN Ran(update,
                    <<Msg("video", "video", fetched[1], fetched[2], upper(code), <<>>)>>,
                    <<>>, <<Stmt("SELECT", upper(code), TRUE)>>, None, None, fetched,
                    None)
           ELSE Ran(update, <<Text("not_found_retry")>>, <<>>,
                    <<Stmt("SELECT", upper(code), TRUE)>>, None, None, fetched, None)

\* /upload
upload(user, reply_to, args, db_ok) ==
    /\ pc = "idle"
    /\ user = NoUser => reply_to = NoReply /\ args = <<>>
    /\ UNCHANGED user_data
    /\ LET update == Update("upload", user, <<>>, args, reply_to, DefaultReports)
       IN  IF ~(user # NoUser /\ is_admin(user))
           THEN /\ Ran(update, <<>>, <<>>, <<>>, None, None, NoRow, None)
                /\ UNCHANGED videos
           ELSE IF no_video(reply_to)
           THEN /\ Ran(update, <<Text("upload_hint")>>, <<>>, <<>>, None, None, NoRow,
                       None)
                /\ UNCHANGED videos
           ELSE IF upload_usage(args)
           THEN /\ Ran(update, <<Text("upload_usage")>>, <<>>, <<>>, None, None, NoRow,
                       None)
                /\ UNCHANGED videos
           ELSE LET code == args[1]
                    title == join(<<" ">>, Tail(args))
                    file_id == reply_to.video
                IN  IF ~db_ok
                    THEN /\ Ran(update, <<>>, <<>>,
                                <<Stmt("REPLACE", upper(code), FALSE)>>, None, None,
                                NoRow, "StorageError")
                         /\ UNCHANGED videos
                    ELSE /\ videos' = add_video(videos, code, title, file_id)
                         /\ Ran(update,
                                <<Msg("text", "saved", None, title, upper(code), <<>>)>>,
                                <<>>, <<Stmt("REPLACE", upper(code), TRUE)>>, None, None,
                                NoRow, None)

\* /delete
delete(user, args, db_ok) ==
    /\ pc = "idle"
    /\ user = NoUser => args = <<>>
    /\ UNCHANGED user_data
    /\ LET update == Update("delete", user, <<>>, args, NoReply, DefaultReports)
       IN  IF ~(user # NoUser /\ is_admin(user))
           THEN /\ Ran(update, <<>>, <<>>, <<>>, None, None, NoRow, None)
                /\ UNCHANGED videos
           ELSE IF delete_usage(args)
           THEN /\ Ran(update, <<Text("delete_usage")>>, <<>>, <<>>, None, None, NoRow,
                       None)
                /\ UNCHANGED videos
           ELSE LET code == args[1]
                    del == delete_video(videos, code)
                IN  IF ~db_ok
                    THEN /\ Ran(update, <<>>, <<>>,
                                <<Stmt("DELETE", upper(code), FALSE)>>, None, None, NoRow,
                                "StorageError")
                         /\ UNCHANGED videos
                    ELSE /\ videos' = del.db
                         /\ IF del.ret
                            THEN Ran(update,
                                     <<Msg("text", "deleted", None, <<>>, upper(code),
                                           <<>>)>>,
                                     <<>>, <<Stmt("DELETE", upper(code), TRUE)>>, None,
                                     "True", NoRow, None)
                            ELSE Ran(update, <<Text("not_found")>>, <<>>,
                                     <<Stmt("DELETE", upper(code), TRUE)>>, None,
                                     "False", NoRow, None)

\* the handler has returned (or raised); the application takes the next update
next_update ==
    /\ pc = "handled"
    /\ pc' = "idle"
    /\ ev' = NoUpdate
    /\ out' = <<>>
    /\ queries' = <<>>
    /\ sql' = <<>>
    /\ cm_ret' = None
    /\ success' = None
    /\ row' = NoRow
    /\ raised' = None
    /\ UNCHANGED <<videos, user_data>>
    /\ UNCHANGED conc_vars

\* ------------------------------------------------- handlers as coroutines
\* the tasks that have sent a message
Replied == {w \in Tasks : tasks[w].sent # <<>>}

\* coroutines are numbered in the order in which their updates arrive
Arrives(t) ==
    /\ ~tasks[t].started
    /\ \A w \in Tasks : w < t => tasks[w].started

\* upload up to its first await
begin_upload(t, user, reply_to, args) ==
    /\ Arrives(t)
    /\ LET steps == IF ~is_admin(user) THEN <<>>
                    ELSE IF no_video(reply_to) THEN <<"hint">>
                    ELSE IF upload_usage(args) THEN <<"usage">>
                    ELSE UploadSteps
       IN  tasks' = [tasks EXCEPT ![t] =
                        [Task("upload", user, <<>>, args, reply_to, TRUE, steps)
                            EXCEPT !.known = Replied]]
    /\ UNCHANGED <<videos, user_data, commits>>
    /\ UNCHANGED seq_vars

\* delete up to its first await
begin_delete(t, user, args) ==
    /\ Arrives(t)
    /\ LET steps == IF ~is_admin(user) THEN <<>>
                    ELSE IF delete_usage(args) THEN <<"usage">>
                    ELSE DeleteSteps
       IN  tasks' = [tasks EXCEPT ![t] =
                        [Task("delete", user, <<>>, args, NoReply, TRUE, steps)
                            EXCEPT !.known = Replied]]
    /\ UNCHANGED <<videos, user_data, commits>>
    /\ UNCHANGED seq_vars

\* handle_code up to its first await
begin_code(t, user, text) ==
    /\ Arrives(t)
    /\ LET steps == IF ~verified(user_data[user]) THEN <<>> ELSE LookupSteps
       IN  tasks' = [tasks EXCEPT ![t] =
                        [Task("handle_code", user, text, <<>>, NoReply, TRUE, steps)
                            EXCEPT !.known = Replied]]
    /\ UNCHANGED <<videos, user_data, commits>>
    /\ UNCHANGED seq_vars

\* the coroutine ends with a storage error
Fails(task) == [task EXCEPT !.steps = <<>>, !.txn = FALSE, !.raised = "StorageError"]

\* await db.execute(REPLACE ...) / await db.execute(DELETE ...): the statement
\* runs in a transaction of the task's own connection; a second writer finds
\* the database locked
execute(t, db_ok) ==
    /\ tasks[t].steps # <<>>
    /\ Head(tasks[t].steps) = "execute"
    /\ IF ~db_ok
       THEN tasks' = [tasks EXCEPT ![t] = Fails(@)]
       ELSE /\ \A w \in Tasks : ~tasks[w].txn
            /\ tasks' = [tasks EXCEPT
                   ![t] = [@ EXCEPT
                       !.steps = Tail(@),
                       !.txn = TRUE,
                       !.rowcount =
                           IF tasks[t].handler = "delete"
                           THEN IF delete_video(videos, tasks[t].args[1]).ret
                                THEN "True" ELSE "False"
                           ELSE None]]
    /\ UNCHANGED <<videos, user_data, commits>>
    /\ UNCHANGED seq_vars

\* await db.commit(): the statement of the task takes effect
commit(t, db_ok) ==
    /\ tasks[t].steps # <<>>
    /\ Head(tasks[t].steps) = "commit"
    /\ IF ~db_ok
       THEN /\ tasks' = [tasks EXCEPT ![t] = Fails(@)]
            /\ UNCHANGED <<videos, commits>>
       ELSE /\ tasks' = [tasks EXCEPT ![t] = [@ EXCEPT !.steps = Tail(@), !.txn = FALSE]]
            /\ videos' =
                 IF tasks[t].handler = "upload"
                 THEN add_video(videos, tasks[t].args[1],
                                join(<<" ">>, Tail(tasks[t].args)),
                                tasks[t].reply_to.video)
                 ELSE delete_video(videos, tasks[t].args[1]).db
            /\ commits' = Append(commits, t)
    /\ UNCHANGED user_data
    /\ UNCHANGED seq_vars

\* row = await fetch_video(code)
select(t, db_ok) ==
    /\ tasks[t].steps # <<>>
    /\ Head(tasks[t].steps) = "select"
    /\ IF ~db_ok
       THEN tasks' = [tasks EXCEPT ![t] = Fails(@)]
       ELSE tasks' = [tasks EXCEPT
                ![t] = [@ EXCEPT
                    !.steps = Tail(@),
                    !.selected = TRUE,
                    !.fetched = fetch_video(videos, strip(tasks[t].text)),
                    !.seen = Len(commits)]]
    /\ UNCHANGED <<videos, user_data, commits>>
    /\ UNCHANGED seq_vars

\* the message a coroutine sends at its reply_text / reply_video
reply_of(task) ==
    IF Head(task.steps) = "hint" THEN Text("upload_hint")
    ELSE IF Head(task.steps) = "usage"
    THEN Text(IF task.handler = "upload" THEN "upload_usage" ELSE "delete_usage")
    ELSE IF task.handler = "upload"
    THEN Msg("text", "saved", None, join(<<" ">>, Tail(task.args)),
             upper(task.args[1]), <<>>)
    ELSE IF task.handler = "delete"
    THEN IF task.rowcount = "True"
         THEN Msg("text", "deleted", None, <<>>, upper(task.args[1]), <<>>)
         ELSE Text("not_found")
    ELSE IF task.fetched # NoRow
    THEN Msg("video", "video", task.fetched[1], task.fetched[2],
             upper(strip(task.text)), <<>>)
    ELSE Text("not_found_retry")

\* await update.message.reply_text(...) / reply_video(...)
reply(t) ==
    /\ tasks[t].steps # <<>>
    /\ Head(tasks[t].steps) \in {"reply", "hint", "usage"}
    /\ tasks' = [tasks EXCEPT
           ![t] = [@ EXCEPT !.steps = Tail(@), !.sent = Append(@, reply_of(tasks[t]))]]
    /\ UNCHANGED <<videos, user_data, commits>>
    /\ UNCHANGED seq_vars

\* the registry is empty; of the users, the administrators have not run
\* /start and the others have passed it
InitConc ==
    /\ videos = {}
    /\ user_data = [u \in Users |-> IF u \in ADMIN_IDS THEN {} ELSE {<<"verified", TRUE>>}]
    /\ pc = "idle"
    /\ ev = NoUpdate
    /\ out = <<>>
    /\ queries = <<>>
    /\ sql = <<>>
    /\ cm_ret = None
    /\ success = None
    /\ row = NoRow
    /\ raised = None
    /\ tasks = [t \in Tasks |-> NewTask]
    /\ commits = <<>>

UploadArrives ==
    \E t \in Tasks, user \in Users, u \in ConcUploads :
        begin_upload(t, user, u.reply_to, u.args)

DeleteArrives ==
    \E t \in Tasks, user \in Users, c \in ConcCodes : begin_delete(t, user, <<c>>)

TextArrives ==
    \E t \in Tasks, user \in Users, c \in ConcCodes : begin_code(t, user, c)

Execute == \E t \in Tasks, db_ok \in BOOLEAN : execute(t, db_ok)

Commit == \E t \in Tasks, db_ok \in BOOLEAN : commit(t, db_ok)

Select == \E t \in Tasks, db_ok \in BOOLEAN : select(t, db_ok)

Reply == \E t \in Tasks : reply(t)

NextConc ==
    \/ UploadArrives
    \/ DeleteArrives
    \/ TextArrives
    \/ Execute
    \/ Commit
    \/ Select
    \/ Reply

SpecConc == InitConc /\ [][NextConc]_vars

\* The four handlers main() registers. One update is handled at a time; its
\* inputs are drawn here.
StartCommand ==
    /\ pc = "idle"
    /\ \E user \in Users \cup {NoUser}, reports \in Reports : start(user, reports)

TextMessage ==
    /\ pc = "idle"
    /\ \E user \in Users, text \in Texts, db_ok \in BOOLEAN :
          handle_code(user, text, db_ok)

UploadCommand ==
    /\ pc = "idle"
    /\ \E user \in Users \cup {NoUser}, reply_to \in ReplyTos, args \in ArgLists,
          db_ok \in BOOLEAN : upload(user, reply_to, args, db_ok)

DeleteCommand ==
    /\ pc = "idle"
    /\ \E user \in Users \cup {NoUser}, args \in ArgLists, db_ok \in BOOLEAN :
          delete(user, args, db_ok)

Next ==
    \/ StartCommand
    \/ TextMessage
    \/ UploadCommand
    \/ DeleteCommand
    \/ next_update

Spec == Init /\ [][Next]_vars

\* ------------------------------------------------------------- properties
\* Vocabulary of the properties, stated without the operators of the model.
LowerChar(ch) ==
    CASE ch = "A" -> "a"
      [] ch = "X" -> "x"
      [] OTHER -> ch

\* c and d differ at most in letter case
SameModuloCase(c, d) ==
    /\ Len(c) = Len(d)
    /\ \A i \in DOMAIN c : LowerChar(c[i]) = LowerChar(d[i])

\* the session of user u is Verified
Flagged(ud, u) == <<"verified", TRUE>> \in ud[u]

PassingStatuses == {"member", "creator", "administrator"}

Handled(h) == pc = "handled" /\ ev.handler = h

\* C1: a plain-text message handled while the sender's session is Unverified
\* sends nothing and runs no registry lookup.
C1_UnverifiedTextIgnored ==
    (Handled("handle_code") /\ ~Flagged(user_data, ev.user))
        => (out = <<>> /\ sql = <<>> /\ row = NoRow /\ raised = None)

\* an Unverified user typed a code the registry holds, and got nothing
C1_Witness ==
    /\ Handled("handle_code")
    /\ ~Flagged(user_data, ev.user)
    /\ \E r \in videos : SameModuloCase(r.code, strip(ev.text))
    /\ out = <<>>

\* C2: no session starts Verified, and a session becomes Verified only in a
\* /start by that user whose membership check queried every mandatory channel
\* and found a passing status in each.
C2_VerifiedOnlyByPassedStart ==
    /\ \A u \in Users : ~Flagged(user_data, u)
    /\ [][\A u \in Users :
            (~Flagged(user_data, u) /\ Flagged(user_data', u))
                => /\ ev'.handler = "start"
                   /\ ev'.user = u
                   /\ \A ch \in Channels : ev'.reports[ch] \in PassingStatuses
                   /\ \A ch \in Channels :
                        \E i \in DOMAIN queries' : queries'[i] = <<ch, u>>]_vars

\* user 2 has just become Verified by /start while user 1 is still Unverified
C2_Witness ==
    /\ Handled("start")
    /\ ev.user = 2
    /\ Flagged(user_data, 2)
    /\ ~Flagged(user_data, 1)
    /\ out # <<>>

\* C3: check_membership returns true exactly when every mandatory channel
\* reports member, creator or administrator; when the platform answers every
\* query with a status, one channel with another status makes it false.
C3_MembershipIffAllPass ==
    (Handled("start") /\ ev.user # NoUser)
        => /\ cm_ret = "True" <=> \A ch \in Channels : ev.reports[ch] \in PassingStatuses
           /\ ( /\ \A ch \in Channels : ev.reports[ch] \in Statuses
                /\ \E ch \in Channels : ev.reports[ch] \notin PassingStatuses )
                  => cm_ret = "False"

\* the user passes in the first channel and has left the last: result false
C3_Witness ==
    /\ Handled("start")
    /\ ev.user # NoUser
    /\ ev.reports[MANDATORY_CHANNELS[1]] \in PassingStatuses
    /\ ev.reports[MANDATORY_CHANNELS[Len(MANDATORY_CHANNELS)]] = "left"
    /\ cm_ret = "False"

\* C4 (as claimed): whenever a membership query made by /start fails, whatever
\* the failure, check_membership yields false and that /start does not mark
\* the session verified.
C4_FailsClosedWithFalse ==
    [][( /\ pc' = "handled"
         /\ ev'.handler = "start"
         /\ \E i \in DOMAIN queries' : ev'.reports[queries'[i][1]] \in QueryErrors )
          => (cm_ret' = "False" /\ user_data' = user_data)]_vars

\* C5 (as claimed): a /start whose membership check fails sends exactly one
\* instruction reply with one join action per mandatory channel.
C5_FailedStartSendsJoinReply ==
    (Handled("start") /\ cm_ret = "False")
        => /\ Len(out) = 1
           /\ out[1].tag = "join"
           /\ Len(out[1].buttons) = Len(MANDATORY_CHANNELS)

\* C6: /upload and /delete from a sender outside the administrator list send
\* nothing, execute nothing on the registry and leave it unchanged.
C6_NonAdminSilentlyRejected ==
    [][( /\ pc' = "handled"
         /\ ev'.handler \in {"upload", "delete"}
         /\ ev'.user \notin ADMIN_IDS )
          => (out' = <<>> /\ sql' = <<>> /\ videos' = videos)]_vars

\* a non-administrator sent a well-formed /upload in reply to a video
C6_Witness ==
    /\ Handled("upload")
    /\ ev.user \in Users \ ADMIN_IDS
    /\ ev.reply_to.video # None
    /\ Len(ev.args) >= 2
    /\ out = <<>>

\* C7: the registry changes only in an /upload by an administrator replying
\* to a video with at least two arguments, which replaces the entry of one
\* code, or in a /delete by an administrator with exactly one argument, which
\* removes the entry of one code.
C7_RegistryChangesOnlyByAdminOps ==
    [][videos' # videos =>
        \/ /\ ev'.handler = "upload"
           /\ ev'.user \in ADMIN_IDS
           /\ ev'.reply_to.is_reply /\ ev'.reply_to.video # None
           /\ Len(ev'.args) >= 2
           /\ \E new \in videos' :
                /\ SameModuloCase(new.code, ev'.args[1])
                /\ videos' \ {new} = {r \in videos : r.code # new.code}
        \/ /\ ev'.handler = "delete"
           /\ ev'.user \in ADMIN_IDS
           /\ Len(ev'.args) = 1
           /\ videos' = {r \in videos : ~SameModuloCase(r.code, ev'.args[1])}]_vars

\* an /upload has stored an entry next to another one
C7_Witness ==
    /\ Handled("upload")
    /\ \E i \in DOMAIN sql : sql[i].op = "REPLACE" /\ sql[i].committed
    /\ Cardinality(videos) >= 2

\* an /upload has run Put(c, t, m) to the end
PutDone ==
    /\ Handled("upload")
    /\ \E i \in DOMAIN sql : sql[i].op = "REPLACE" /\ sql[i].committed

\* C8: after Put(c, t, m), Get(c') returns (m, t) for every c' that differs
\* from c only in letter case.
C8_PutGetAnyCase ==
    PutDone =>
        \A c \in Codes :
            SameModuloCase(c, ev.args[1])
                => fetch_video(videos, c)
                     = <<ev.reply_to.video, join(<<" ">>, Tail(ev.args))>>

\* a code was put in mixed case, so that both its all-lowercase and its
\* all-uppercase spelling differ from it
C8_Witness ==
    /\ PutDone
    /\ \E i, j \in DOMAIN ev.args[1] : ev.args[1][i] = "a" /\ ev.args[1][j] = "A"

\* a /delete has run Delete(c) to the end
DeleteDone ==
    /\ Handled("delete")
    /\ \E i \in DOMAIN sql : sql[i].op = "DELETE" /\ sql[i].committed

\* C9: the registry never holds two entries whose codes differ only in case,
\* and Get follows the last Put or Delete on the code: a Put makes Get return
\* its (mediaRef, title), a Delete makes Get return nothing, and every other
\* step leaves what Get returns unchanged (trivially so when the step is no
\* Put or Delete and leaves the table as it was).
C9_LastWriteWinsNoDuplicates ==
    /\ [](\A r1, r2 \in videos : SameModuloCase(r1.code, r2.code) => r1 = r2)
    /\ [][\/ videos' = videos /\ ~PutDone' /\ ~DeleteDone'
          \/ \A c \in Codes :
                IF PutDone' /\ SameModuloCase(c, ev'.args[1])
                THEN fetch_video(videos', c)
                       = <<ev'.reply_to.video, join(<<" ">>, Tail(ev'.args))>>
                ELSE IF DeleteDone' /\ SameModuloCase(c, ev'.args[1])
                THEN fetch_video(videos', c) = NoRow
                ELSE fetch_video(videos', c) = fetch_video(videos, c)]_vars

\* a Put of media f2 has just been stored, with another code's entry beside it
C9_Witness ==
    /\ PutDone
    /\ ev.reply_to.video = "f2"
    /\ Cardinality(videos) = 2
    /\ \E r \in videos : r.file_id = "f1"

\* C10: Delete(c) with no entry under c's normalized form returns false and
\* leaves the registry as it was; with an entry it returns true and removes
\* that entry and no other.
C10_DeleteFrame ==
    [][DeleteDone' =>
        LET hit == {r \in videos : SameModuloCase(r.code, ev'.args[1])}
        IN  IF hit = {}
            THEN success' = "False" /\ videos' = videos
            ELSE /\ success' = "True"
                 /\ Cardinality(hit) = 1
                 /\ videos' = videos \ hit]_vars

\* Delete of a code in lowercase removed its entry and left another in place
C10_Witness ==
    /\ DeleteDone
    /\ success = "True"
    /\ \A i \in DOMAIN ev.args[1] : ev.args[1][i] = "a"
    /\ videos # {}

\* k is c written in uppercase
IsUpperOf(k, c) ==
    /\ SameModuloCase(k, c)
    /\ \A i \in DOMAIN k : k[i] \notin {"a", "x"}

\* the words separated by single spaces, built from the last word backwards
RECURSIVE SpaceJoined(_)
SpaceJoined(ws) ==
    IF Len(ws) = 1 THEN ws[1]
    ELSE SpaceJoined(SubSeq(ws, 1, Len(ws) - 1)) \o <<" ">> \o ws[Len(ws)]

\* an administrator sent /upload <code> <title words> in reply to a video
AdminUploadOfVideo ==
    /\ Handled("upload")
    /\ ev.user \in ADMIN_IDS
    /\ ev.reply_to.is_reply /\ ev.reply_to.video # None
    /\ Len(ev.args) >= 2

\* the registry maps the uppercased code to (that video, the joined title)
UploadStored ==
    \E r \in videos :
        /\ IsUpperOf(r.code, ev.args[1])
        /\ r.file_id = ev.reply_to.video
        /\ r.title = SpaceJoined(Tail(ev.args))
        /\ \A r2 \in videos : SameModuloCase(r2.code, r.code) => r2 = r

\* exactly one confirmation, carrying the uppercased code
UploadConfirmed ==
    /\ Len(out) = 1
    /\ out[1].tag = "saved"
    /\ IsUpperOf(out[1].code, ev.args[1])

\* C11 (as claimed): every such /upload stores the entry and sends exactly one
\* confirmation with the normalized code.
C11_AsClaimed == AdminUploadOfVideo => (UploadStored /\ UploadConfirmed)

\* C11 (amended): such an /upload stores the entry and sends exactly one
\* confirmation with the normalized code, unless the registry write fails;
\* then the storage error leaves the handler and no reply is sent.
C11_UploadStoresAndConfirms ==
    AdminUploadOfVideo =>
        IF raised = None THEN UploadStored /\ UploadConfirmed
        ELSE raised = "StorageError" /\ out = <<>>

\* a code with a lowercase letter and a two-word title were stored
C11_Witness ==
    /\ AdminUploadOfVideo
    /\ raised = None
    /\ Len(ev.args) = 3
    /\ \E i \in DOMAIN ev.args[1] : ev.args[1][i] = "a"
    /\ UploadStored

\* c is t without its leading and trailing spaces
IsTrimOf(c, t) ==
    \E i, j \in DOMAIN t :
        /\ i <= j
        /\ c = SubSeq(t, i, j)
        /\ t[i] # " " /\ t[j] # " "
        /\ \A k \in DOMAIN t : (k < i \/ k > j) => t[k] = " "

\* a Verified user sent a plain-text message
VerifiedText == Handled("handle_code") /\ Flagged(user_data, ev.user)

\* C12 (as claimed): a plain-text message from a Verified user always gets
\* exactly one reply.
C12_AsClaimed == VerifiedText => Len(out) = 1

\* C12 (amended): a plain-text message from a Verified user gets exactly one
\* reply, the video stored under the trimmed, uppercased text with its title
\* and that code in the caption, or else the not-found text, unless the
\* registry read fails; then the storage error leaves the handler and no
\* reply is sent.
C12_VerifiedTextGetsOneReply ==
    VerifiedText =>
        IF raised # None THEN raised = "StorageError" /\ out = <<>>
        ELSE /\ \E c \in Codes : IsTrimOf(c, ev.text)
             /\ \A c \in Codes :
                  IsTrimOf(c, ev.text) =>
                      LET hit == {r \in videos : SameModuloCase(r.code, c)}
                      IN  /\ Len(out) = 1
                          /\ IF hit # {}
                             THEN /\ out[1].kind = "video"
                                  /\ IsUpperOf(out[1].code, c)
                                  /\ \E r \in hit : /\ out[1].video = r.file_id
                                                    /\ out[1].title = r.title
                             ELSE out[1].kind = "text" /\ out[1].tag = "not_found_retry"

\* a Verified user typed a stored code in lowercase between spaces and got
\* the video
C12_Witness ==
    /\ VerifiedText
    /\ Head(ev.text) = " " /\ ev.text[Len(ev.text)] = " "
    /\ \E i \in DOMAIN ev.text : ev.text[i] = "a"
    /\ Len(out) = 1 /\ out[1].kind = "video"

\* the registry db holds an entry under code c in some letter case
Holds(db, c) == \E r \in db : SameModuloCase(r.code, c)

\* an administrator sent /delete with exactly one argument
AdminDelete ==
    /\ Handled("delete")
    /\ ev.user \in ADMIN_IDS
    /\ Len(ev.args) = 1

\* C13 (as claimed): an administrator's /delete of a code the registry holds
\* removes it and is answered with the success reply.
C13_AsClaimed ==
    [][(AdminDelete' /\ Holds(videos, ev'.args[1]))
         => /\ ~Holds(videos', ev'.args[1])
            /\ Len(out') = 1
            /\ out'[1].tag = "deleted"]_vars

\* C13 (amended): unless the registry operation fails (then the storage error
\* leaves the handler and no reply is sent), an administrator's /delete of c
\* leaves no entry under c in any letter case and is answered with the
\* success reply if there was one and with the not-found reply otherwise; a
\* code without an entry gets one only by an /upload of it; and a Verified
\* user's lookup of a code without an entry is answered with the not-found
\* reply.
C13_DeleteThenNotFound ==
    [][/\ AdminDelete' =>
            IF raised' # None THEN raised' = "StorageError" /\ out' = <<>>
            ELSE /\ ~Holds(videos', ev'.args[1])
                 /\ Len(out') = 1
                 /\ out'[1].tag
                      = IF Holds(videos, ev'.args[1]) THEN "deleted" ELSE "not_found"
       /\ \/ videos' = videos
          \/ \A c \in Codes :
                (~Holds(videos, c) /\ Holds(videos', c))
                    => PutDone' /\ SameModuloCase(c, ev'.args[1])
       /\ (VerifiedText' /\ raised' = None) =>
            \A c \in Codes :
                (IsTrimOf(c, ev'.text) /\ ~Holds(videos', c))
                    => /\ Len(out') = 1
                       /\ out'[1].tag = "not_found_retry"]_vars

\* a code stored in uppercase was deleted under a mixed-case spelling, which
\* emptied the registry
C13_Witness ==
    /\ AdminDelete
    /\ Len(out) = 1 /\ out[1].tag = "deleted"
    /\ \E i, j \in DOMAIN ev.args[1] : ev.args[1][i] = "a" /\ ev.args[1][j] = "A"
    /\ videos = {}

\* an administrator's /upload or /delete that fails validation
AdminValidationFailure ==
    /\ pc = "handled"
    /\ ev.user \in ADMIN_IDS
    /\ \/ /\ ev.handler = "upload"
          /\ ~ev.reply_to.is_reply \/ ev.reply_to.video = None \/ Len(ev.args) < 2
       \/ /\ ev.handler = "delete"
          /\ Len(ev.args) # 1

\* C14: an administrator's /upload that is no reply to a video or has fewer
\* than two arguments, and an administrator's /delete without exactly one
\* argument, send exactly one usage hint, execute nothing on the registry and
\* leave the registry and every session flag unchanged.
C14_ValidationFailureChangesNothing ==
    [][AdminValidationFailure' =>
        /\ Len(out') = 1
        /\ out'[1].kind = "text"
        /\ out'[1].tag
             = IF ev'.handler = "delete" THEN "delete_usage"
               ELSE IF ~ev'.reply_to.is_reply \/ ev'.reply_to.video = None
               THEN "upload_hint"
               ELSE "upload_usage"
        /\ sql' = <<>>
        /\ videos' = videos
        /\ user_data' = user_data]_vars

\* an administrator replied to a video with /upload and the code alone, while
\* the registry held an entry
C14_Witness ==
    /\ AdminValidationFailure
    /\ ev.handler = "upload"
    /\ ev.reply_to.video # None
    /\ Len(ev.args) = 1
    /\ out[1].tag = "upload_usage"
    /\ videos # {}

\* C15: a Verified session stays Verified in every step.
C15_VerifiedIsStable ==
    [][\A u \in Users : Flagged(user_data, u) => Flagged(user_data', u)]_vars

\* user 1, Verified, ran /start after being kicked from the first channel and
\* is Verified still
C15_Witness ==
    /\ Handled("start")
    /\ ev.user = 1
    /\ ev.reports[MANDATORY_CHANNELS[1]] = "kicked"
    /\ Flagged(user_data, 1)

\* C16 (as claimed): after a /start whose membership check fails, the user's
\* session is not Verified, so that the user's plain-text messages trigger no
\* lookup (C1).
C16_AsClaimed ==
    (Handled("start") /\ ev.user \in Users /\ cm_ret = "False")
        => ~Flagged(user_data, ev.user)

\* C16 (amended): a /start by a Verified user whose membership check does not
\* succeed leaves the session Verified, and every plain-text message of a
\* Verified user runs a registry lookup.
C16_FailedStartKeepsLookups ==
    /\ [](VerifiedText => (Len(sql) = 1 /\ sql[1].op = "SELECT"))
    /\ [][( /\ pc' = "handled"
            /\ ev'.handler = "start"
            /\ ev'.user \in Users
            /\ cm_ret' # "True"
            /\ Flagged(user_data, ev'.user) )
             => Flagged(user_data', ev'.user)]_vars

\* user 2, Verified earlier, has left the last channel and re-ran /start: the
\* check returned false and the session is Verified still
C16_Witness ==
    /\ Handled("start")
    /\ ev.user = 2
    /\ ev.reports[MANDATORY_CHANNELS[Len(MANDATORY_CHANNELS)]] = "left"
    /\ cm_ret = "False"
    /\ Flagged(user_data, 2)

\* C17: every /start of a user queries the platform for that user, and whether
\* it answers with the confirmation is decided by the answers to these
\* queries alone: the confirmation if every channel passes, and otherwise no
\* confirmation (no reply at all leaves the handler then, see C5), whatever
\* the session's flag.
C17_StartAlwaysChecksAfresh ==
    (Handled("start") /\ ev.user \in Users)
        => /\ Len(queries) >= 1
           /\ \A i \in DOMAIN queries : queries[i][2] = ev.user
           /\ IF \A ch \in Channels : ev.reports[ch] \in PassingStatuses
              THEN Len(out) = 1 /\ out[1].tag = "verified"
              ELSE out = <<>>

\* a Verified user re-ran /start, was queried for every channel and failed the
\* last one
C17_Witness ==
    /\ Handled("start")
    /\ ev.user \in Users
    /\ Flagged(user_data, ev.user)
    /\ Len(queries) = Len(MANDATORY_CHANNELS)
    /\ out = <<>>
    /\ raised = "NameError"

\* C19: the queries of one check_membership are the mandatory channels in list
\* order, each once, up to and including the first channel that does not pass.
C19_QueriesInOrderUntilFailure ==
    (Handled("start") /\ ev.user \in Users)
        => /\ Len(queries) >= 1
           /\ Len(queries) <= Len(MANDATORY_CHANNELS)
           /\ \A i \in DOMAIN queries :
                /\ queries[i] = <<MANDATORY_CHANNELS[i], ev.user>>
                /\ i < Len(queries)
                     => ev.reports[MANDATORY_CHANNELS[i]] \in PassingStatuses
           /\ Len(queries) < Len(MANDATORY_CHANNELS)
                => ev.reports[MANDATORY_CHANNELS[Len(queries)]] \notin PassingStatuses

\* the first channel reported restricted, the last one would have passed: one
\* query was made
C19_Witness ==
    /\ Handled("start")
    /\ ev.user \in Users
    /\ ev.reports[MANDATORY_CHANNELS[1]] = "restricted"
    /\ ev.reports[MANDATORY_CHANNELS[Len(MANDATORY_CHANNELS)]] \in PassingStatuses
    /\ Len(queries) = 1

\* the (mediaRef, title) that the /upload of coroutine w puts
PairOf(w) == <<tasks[w].reply_to.video, SpaceJoined(Tail(tasks[w].args))>>

\* coroutine w handles an /upload or /delete of code c in some letter case
WritesCode(w, c) ==
    /\ tasks[w].handler \in {"upload", "delete"}
    /\ tasks[w].args # <<>>
    /\ SameModuloCase(tasks[w].args[1], c)

\* the write of coroutine w has been committed
Committed(w) == \E p \in DOMAIN commits : commits[p] = w

\* C18: with handlers interleaving at their awaits, the registry never holds
\* two entries for one normalized code, and what a lookup fetches is nothing
\* or the (mediaRef, title) put by one single committed /upload of that code.
C18_AtomicRegistryOps ==
    /\ \A r1, r2 \in videos : SameModuloCase(r1.code, r2.code) => r1 = r2
    /\ \A s \in Tasks :
         (tasks[s].handler = "handle_code" /\ tasks[s].fetched # NoRow)
             => \E w \in Tasks :
                    /\ tasks[w].handler = "upload"
                    /\ WritesCode(w, tasks[s].text)
                    /\ Committed(w)
                    /\ tasks[s].fetched = PairOf(w)

\* a lookup has fetched the entry of one /upload while another /upload of the
\* same code, with another media and title, was between execute and commit
C18_Witness ==
    \E s, w \in Tasks :
        /\ tasks[s].handler = "handle_code"
        /\ tasks[s].selected /\ tasks[s].fetched # NoRow
        /\ tasks[s].steps # <<>>
        /\ tasks[w].handler = "upload"
        /\ tasks[w].txn
        /\ WritesCode(w, tasks[s].text)
        /\ tasks[s].fetched # PairOf(w)

\* coroutine w has sent the confirmation of its /upload or the reply of its
\* /delete
Confirmed(w) ==
    /\ tasks[w].handler \in {"upload", "delete"}
    /\ \E i \in DOMAIN tasks[w].sent :
         tasks[w].sent[i].tag \in {"saved", "deleted", "not_found"}

\* C20: a coroutine has committed its write when it sends its confirmation; a
\* coroutine that ended with a storage error has sent nothing; and a lookup
\* that began after the confirmation of a write of its code selects after
\* that commit and fetches what that write left, unless another write of the
\* code was committed in between.
C20_ConfirmationAfterCommit ==
    /\ \A w \in Tasks : Confirmed(w) => Committed(w)
    /\ \A w \in Tasks : tasks[w].raised # None => tasks[w].sent = <<>>
    /\ \A s \in Tasks :
         (tasks[s].handler = "handle_code" /\ tasks[s].selected) =>
            \A w \in tasks[s].known :
                (Confirmed(w) /\ WritesCode(w, tasks[s].text)) =>
                    \E p \in 1..tasks[s].seen :
                        /\ commits[p] = w
                        /\ (\A q \in (p + 1)..tasks[s].seen :
                                ~WritesCode(commits[q], tasks[s].text))
                             => tasks[s].fetched
                                  = IF tasks[w].handler = "upload"
                                    THEN PairOf(w) ELSE NoRow

\* a lookup began after the confirmation of an /upload of its code in another
\* letter case and has fetched what that /upload put
C20_Witness ==
    \E s, w \in Tasks :
        /\ tasks[s].handler = "handle_code"
        /\ tasks[s].selected
        /\ w \in tasks[s].known
        /\ tasks[w].handler = "upload"
        /\ Confirmed(w)
        /\ WritesCode(w, tasks[s].text)
        /\ tasks[w].args[1] # tasks[s].text
        /\ tasks[s].fetched = PairOf(w)

====
